---- MODULE Spec2Model ----
(***************************************************************************)
(* Model of the assignment plagiarism checker: FeatureExtractor (TF-IDF),  *)
(* SimilarityChecker (cosine similarity, compareAll) and the pipeline of   *)
(* main that feeds them.                                                   *)
(*                                                                         *)
(* Strings are sequences of one-character strings, so that the code's      *)
(* character level operations (comparison, suffix tests) can be computed.  *)
(*                                                                         *)
(* A double is modelled by an exact value: a weight, a dot product or a    *)
(* sum of squares is a rational [num, den] in lowest terms, and the result *)
(* of std::sqrt and of the final division is a signed square root          *)
(* [sgn, sq] standing for sgn * sqrt(sq).  Rounding of IEEE doubles is not *)
(* represented.  std::log10 is a fixed-point table in tenths.              *)
(***************************************************************************)
EXTENDS Integers, Sequences, FiniteSets, TLC

\* ------------------------------------------------------------------ bounds
MaxDocs == 3
MaxTokens == 3

\* ----------------------------------------------------------------- strings
\* the characters that occur in the model, in ascending character code
CharOrder == <<"\n", " ", ",", "-", ".", "/", "0", "1", "2", "3", "4", "5", "6", "7", "8", "9",
               "A", "B", "D", "\\", "a", "b", "c", "d", "e", "f", "g", "i", "m", "n", "o",
               "p", "r", "s", "t", "u", "v", "x", "E9">>

CharRank(c) == CHOOSE k \in 1..Len(CharOrder) : CharOrder[k] = c

\* std::string operator< : lexicographic comparison by character code
RECURSIVE StrLess(_, _)
StrLess(s, t) ==
    IF t = <<>> THEN FALSE
    ELSE IF s = <<>> THEN TRUE
    ELSE IF Head(s) = Head(t) THEN StrLess(Tail(s), Tail(t))
    ELSE CharRank(Head(s)) < CharRank(Head(t))

\* iteration order of a std::set<std::string> / the keys of a std::map
RECURSIVE SortedSeq(_)
SortedSeq(S) ==
    IF S = {} THEN <<>>
    ELSE LET m == CHOOSE x \in S : \A y \in S \ {x} : StrLess(x, y)
         IN <<m>> \o SortedSeq(S \ {m})

\* std::to_string of a non-negative int
RECURSIVE ToDecimal(_)
ToDecimal(n) ==
    IF n < 10 THEN <<CharOrder[CharRank("0") + n]>>
    ELSE ToDecimal(n \div 10) \o <<CharOrder[CharRank("0") + (n % 10)]>>

\* ----------------------------------------------------------------- doubles
Abs(x) == IF x < 0 THEN -x ELSE x

RECURSIVE GCD(_, _)
GCD(a, b) == IF b = 0 THEN a ELSE GCD(b, a % b)

\* the rational n/d (d # 0) in lowest terms with a positive denominator
Rat(n, d) ==
    LET g == GCD(Abs(n), Abs(d))
        s == IF d < 0 THEN -1 ELSE 1
    IN [num |-> (s * n) \div g, den |-> (s * d) \div g]

RatZero == [num |-> 0, den |-> 1]
RatOne == [num |-> 1, den |-> 1]

RatAdd(p, q) == Rat(p.num * q.den + q.num * p.den, p.den * q.den)

RatMul(p, q) ==
    LET g1 == GCD(Abs(p.num), q.den)
        g2 == GCD(Abs(q.num), p.den)
    IN Rat((p.num \div g1) * (q.num \div g2), (p.den \div g2) * (q.den \div g1))

\* p / q for q # 0
RatDiv(p, q) ==
    RatMul(p, IF q.num < 0 THEN [num |-> -q.den, den |-> -q.num]
              ELSE [num |-> q.den, den |-> q.num])

RatLeq(p, q) == p.num * q.den <= q.num * p.den

Sign(x) == IF x > 0 THEN 1 ELSE IF x < 0 THEN -1 ELSE 0

\* the double literals 0.0 and 1.0 as returned by cosineSimilarity
Zero == [sgn |-> 0, sq |-> RatZero]
One == [sgn |-> 1, sq |-> RatOne]

\* std::sqrt of a non-negative rational
Sqrt(p) == [sgn |-> Sign(p.num), sq |-> p]

\* product of two square roots
SurdMul(a, b) == [sgn |-> a.sgn * b.sgn, sq |-> RatMul(a.sq, b.sq)]

\* rational p divided by the non-zero square root m
DivBySurd(p, m) ==
    [sgn |-> Sign(p.num) * m.sgn, sq |-> RatDiv(RatMul(p, p), m.sq)]

\* order on signed square roots
SurdLeq(a, b) ==
    IF a.sgn <= 0 /\ b.sgn >= 0 THEN TRUE
    ELSE IF a.sgn > 0 /\ b.sgn <= 0 THEN FALSE
    ELSE IF a.sgn > 0 THEN RatLeq(a.sq, b.sq)
    ELSE RatLeq(b.sq, a.sq)

\* std::log10(k) for k = 1, 2, ... in tenths, rounded to the nearest
Log10Table == <<0, 3, 5, 6, 7, 8>>

\* std::log10(n / d) for 1 <= d <= n
Log10(n, d) == Rat(Log10Table[n] - Log10Table[d], 10)

\* -------------------------------------------------------- FeatureExtractor
Range(f) == {f[x] : x \in DOMAIN f}

\* an empty std::map
EmptyMap == [t \in {} |-> RatZero]

RECURSIVE firstSeen(_, _)
firstSeen(words, seen) ==
    IF words = <<>> THEN seen
    ELSE firstSeen(Tail(words),
                   IF Head(words) \in Range(seen) THEN seen ELSE Append(seen, Head(words)))

RECURSIVE allWords(_)
allWords(docs) == IF docs = <<>> THEN <<>> ELSE Head(docs) \o allWords(Tail(docs))

\* buildVocabulary that collects the words in a vector, in the order of their
\* first occurrence, instead of a std::set
buildVocabularyFirstSeen(docs) == firstSeen(allWords(docs), <<>>)

\* FeatureExtractor::buildVocabulary : the distinct words, in std::set order
buildVocabulary(docs) ==
    SortedSeq(UNION {Range(docs[k]) : k \in DOMAIN docs})

\* computeTF that divides by the number of distinct terms
computeTFByDistinct(document) ==
    IF document = <<>> THEN EmptyMap
    ELSE [t \in Range(document) |->
             Rat(Cardinality({p \in DOMAIN document : document[p] = t}),
                 Cardinality(Range(document)))]

\* FeatureExtractor::computeTF : term -> count / |document|
computeTF(document) ==
    IF document = <<>> THEN EmptyMap
    ELSE LET termCount == [t \in Range(document) |->
                              Cardinality({p \in DOMAIN document : document[p] = t})]
             totalTerms == Len(document)
         IN [t \in DOMAIN termCount |-> Rat(termCount[t], totalTerms)]

\* computeIDF whose document loop stops one document early
computeIDFSkipLast(docs, vocab) ==
    IF docs = <<>> THEN EmptyMap
    ELSE LET docCount(term) ==
                 Cardinality({k \in 1..(Len(docs) - 1) : term \in Range(docs[k])})
         IN [term \in Range(vocab) |->
                IF docCount(term) > 0 THEN Log10(Len(docs), docCount(term)) ELSE RatZero]

\* computeIDF with a smoothed numerator, log10((1 + totalDocs) / docCount)
computeIDFSmooth(docs, vocab) ==
    IF docs = <<>> THEN EmptyMap
    ELSE LET docCount(term) == Cardinality({k \in DOMAIN docs : term \in Range(docs[k])})
         IN [term \in Range(vocab) |->
                IF docCount(term) > 0 THEN Log10(1 + Len(docs), docCount(term)) ELSE RatZero]

\* computeIDF that takes log10(docCount / totalDocs)
computeIDFInverted(docs, vocab) ==
    IF docs = <<>> THEN EmptyMap
    ELSE LET docCount(term) == Cardinality({k \in DOMAIN docs : term \in Range(docs[k])})
         IN [term \in Range(vocab) |->
                IF docCount(term) > 0 THEN Log10(docCount(term), Len(docs)) ELSE RatZero]

\* computeIDF that counts the occurrences of the term in the corpus instead
\* of the documents containing it
computeIDFOccurrences(docs, vocab) ==
    IF docs = <<>> THEN EmptyMap
    ELSE LET all == allWords(docs)
             occurrences(term) == Cardinality({p \in DOMAIN all : all[p] = term})
         IN [term \in Range(vocab) |->
                IF occurrences(term) > 0 THEN Log10(Len(docs), occurrences(term))
                ELSE RatZero]

\* computeIDF that takes its terms from the first document instead of the
\* vocabulary
computeIDFFirstDoc(docs, vocab) ==
    IF docs = <<>> THEN EmptyMap
    ELSE [term \in Range(docs[1]) |->
             Log10(Len(docs), Cardinality({k \in DOMAIN docs : term \in Range(docs[k])}))]

\* FeatureExtractor::computeIDF : term -> log10(totalDocs / docCount)
computeIDF(docs, vocab) ==
    IF docs = <<>> THEN EmptyMap
    ELSE LET totalDocs == Len(docs)
             docCount(term) == Cardinality({k \in DOMAIN docs : term \in Range(docs[k])})
         IN [term \in Range(vocab) |->
                IF docCount(term) > 0 THEN Log10(totalDocs, docCount(term))
                ELSE RatZero]

\* computeTFIDF that takes 1.0 as the TF of a term absent from the document
computeTFIDFAbsentOne(docs, vocab) ==
    IF docs = <<>> THEN <<>>
    ELSE LET idf == computeIDF(docs, vocab)
         IN [k \in DOMAIN docs |->
                LET tf == computeTF(docs[k])
                IN [term \in Range(vocab) |->
                       RatMul(IF term \in DOMAIN tf THEN tf[term] ELSE RatOne, idf[term])]]

RECURSIVE Reverse(_)
Reverse(seq) == IF seq = <<>> THEN <<>> ELSE Append(Reverse(Tail(seq)), Head(seq))

\* computeTFIDF that inserts each vector at the front of tfidfVectors
computeTFIDFReversed(docs, vocab) ==
    IF docs = <<>> THEN <<>>
    ELSE LET idf == computeIDF(docs, vocab)
         IN Reverse([k \in DOMAIN docs |->
                       LET tf == computeTF(docs[k])
                       IN [term \in Range(vocab) |->
                              RatMul(IF term \in DOMAIN tf THEN tf[term] ELSE RatZero,
                                     idf[term])]])

\* computeTFIDF that stores a weight only for the terms of the document
computeTFIDFSparse(docs, vocab) ==
    IF docs = <<>> THEN <<>>
    ELSE LET idf == computeIDF(docs, vocab)
         IN [k \in DOMAIN docs |->
                LET tf == computeTF(docs[k])
                IN [term \in DOMAIN tf |-> RatMul(tf[term], idf[term])]]

\* computeTFIDF that also stores the share of the document in the corpus
\* under the empty string
computeTFIDFWithShare(docs, vocab) ==
    IF docs = <<>> THEN <<>>
    ELSE LET idf == computeIDF(docs, vocab)
         IN [k \in DOMAIN docs |->
                LET tf == computeTF(docs[k])
                IN [term \in Range(vocab) \cup {<<>>} |->
                       IF term = <<>> THEN Rat(1, Len(docs))
                       ELSE RatMul(IF term \in DOMAIN tf THEN tf[term] ELSE RatZero,
                                   idf[term])]]

\* std::map::at(key) throws std::out_of_range when the key is absent
atThrows(map, key) == key \notin DOMAIN map

\* FeatureExtractor::computeTFIDF : whether one of its at() lookups throws;
\* idf.at(term) is made for every vocabulary term, tf.at(term) for the terms
\* that tf.find(term) found
computeTFIDFThrows(docs, vocab) ==
    /\ docs # <<>>
    /\ LET idf == computeIDF(docs, vocab)
       IN \/ \E term \in Range(vocab) : atThrows(idf, term)
          \/ \E k \in DOMAIN docs :
                LET tf == computeTF(docs[k])
                IN \E term \in Range(vocab) : term \in DOMAIN tf /\ atThrows(tf, term)

\* FeatureExtractor::computeTFIDF : the new value of tfidfVectors
computeTFIDF(docs, vocab) ==
    IF docs = <<>> THEN <<>>
    ELSE LET idf == computeIDF(docs, vocab)
         IN [k \in DOMAIN docs |->
                LET tf == computeTF(docs[k])
                IN [term \in Range(vocab) |->
                       LET tfValue == IF term \in DOMAIN tf THEN tf[term] ELSE RatZero
                           idfValue == idf[term]
                       IN RatMul(tfValue, idfValue)]]

\* FeatureExtractor::getTFIDFVector : the vector of docIndex, {} out of range
getTFIDFVector(vecs, docIndex) ==
    IF docIndex >= 0 /\ docIndex < Len(vecs) THEN vecs[docIndex + 1] ELSE EmptyMap

\* ------------------------------------------------------- SimilarityChecker
Size(vec) == Cardinality(DOMAIN vec)

RECURSIVE dotLoop(_, _, _, _)
dotLoop(keys, smaller, larger, result) ==
    IF keys = <<>> THEN result
    ELSE LET term == Head(keys)
             value1 == smaller[term]
         IN IF term \in DOMAIN larger
            THEN dotLoop(Tail(keys), smaller, larger,
                         RatAdd(result, RatMul(value1, larger[term])))
            ELSE dotLoop(Tail(keys), smaller, larger, result)

\* dotProduct that adds the two weights of a common term instead of
\* multiplying them
RECURSIVE dotLoopSum(_, _, _, _)
dotLoopSum(keys, smaller, larger, result) ==
    IF keys = <<>> THEN result
    ELSE IF Head(keys) \in DOMAIN larger
         THEN dotLoopSum(Tail(keys), smaller, larger,
                         RatAdd(result, RatAdd(smaller[Head(keys)], larger[Head(keys)])))
         ELSE dotLoopSum(Tail(keys), smaller, larger, result)

dotProductSum(vec1, vec2) ==
    LET smaller == IF Size(vec1) < Size(vec2) THEN vec1 ELSE vec2
        larger == IF Size(vec1) < Size(vec2) THEN vec2 ELSE vec1
    IN dotLoopSum(SortedSeq(DOMAIN smaller), smaller, larger, RatZero)

\* SimilarityChecker::dotProduct : iterate the smaller map, probe the larger
dotProduct(vec1, vec2) ==
    LET smaller == IF Size(vec1) < Size(vec2) THEN vec1 ELSE vec2
        larger == IF Size(vec1) < Size(vec2) THEN vec2 ELSE vec1
    IN dotLoop(SortedSeq(DOMAIN smaller), smaller, larger, RatZero)

RECURSIVE sumSquares(_, _, _)
sumSquares(keys, vec, sum) ==
    IF keys = <<>> THEN sum
    ELSE sumSquares(Tail(keys), vec, RatAdd(sum, RatMul(vec[Head(keys)], vec[Head(keys)])))

\* magnitude that forgets std::sqrt and returns the sum of squares
magnitudeNoSqrt(vec) ==
    LET sum == sumSquares(SortedSeq(DOMAIN vec), vec, RatZero)
    IN [sgn |-> Sign(sum.num), sq |-> RatMul(sum, sum)]

\* magnitude that takes the mean of the squares over the entries of the map
magnitudeMean(vec) ==
    IF Size(vec) = 0 THEN Zero
    ELSE Sqrt(RatDiv(sumSquares(SortedSeq(DOMAIN vec), vec, RatZero), Rat(Size(vec), 1)))

\* SimilarityChecker::magnitude : sqrt of the sum of squares
magnitude(vec) == Sqrt(sumSquares(SortedSeq(DOMAIN vec), vec, RatZero))

\* the formula of cosineSimilarity for two valid, distinct indices
cosineFormula(vecs, doc1Index, doc2Index) ==
    LET vec1 == vecs[doc1Index + 1]
        vec2 == vecs[doc2Index + 1]
        dot == dotProduct(vec1, vec2)
        mag1 == magnitude(vec1)
        mag2 == magnitude(vec2)
    IN IF mag1 = Zero \/ mag2 = Zero THEN Zero
       ELSE DivBySurd(dot, SurdMul(mag1, mag2))

\* cosineSimilarity without the test doc1Index == doc2Index
cosineSimilarityNoSelf(vecs, doc1Index, doc2Index) ==
    IF doc1Index < 0 \/ doc1Index >= Len(vecs) \/ doc2Index < 0 \/ doc2Index >= Len(vecs)
    THEN Zero
    ELSE cosineFormula(vecs, doc1Index, doc2Index)

\* cosineSimilarity that tests doc1Index == doc2Index before the index range
cosineSimilaritySelfFirst(vecs, doc1Index, doc2Index) ==
    IF doc1Index = doc2Index THEN One
    ELSE IF doc1Index < 0 \/ doc1Index >= Len(vecs) \/ doc2Index < 0 \/ doc2Index >= Len(vecs)
    THEN Zero
    ELSE cosineFormula(vecs, doc1Index, doc2Index)

\* cosineSimilarity that divides by mag1 * mag1
cosineSimilarityMag1Twice(vecs, doc1Index, doc2Index) ==
    IF doc1Index < 0 \/ doc1Index >= Len(vecs) \/ doc2Index < 0 \/ doc2Index >= Len(vecs)
    THEN Zero
    ELSE IF doc1Index = doc2Index THEN One
    ELSE LET vec1 == vecs[doc1Index + 1]
             vec2 == vecs[doc2Index + 1]
             dot == dotProduct(vec1, vec2)
             mag1 == magnitude(vec1)
             mag2 == magnitude(vec2)
         IN IF mag1 = Zero \/ mag2 = Zero THEN Zero
            ELSE DivBySurd(dot, SurdMul(mag1, mag1))

\* cosineSimilarity that returns the dot product without dividing it by
\* the magnitudes
cosineSimilarityDotOnly(vecs, doc1Index, doc2Index) ==
    IF doc1Index < 0 \/ doc1Index >= Len(vecs) \/ doc2Index < 0 \/ doc2Index >= Len(vecs)
    THEN Zero
    ELSE IF doc1Index = doc2Index THEN One
    ELSE LET dot == dotProduct(vecs[doc1Index + 1], vecs[doc2Index + 1])
         IN IF magnitude(vecs[doc1Index + 1]) = Zero \/ magnitude(vecs[doc2Index + 1]) = Zero
            THEN Zero
            ELSE [sgn |-> Sign(dot.num), sq |-> RatMul(dot, dot)]

\* SimilarityChecker::cosineSimilarity on the stored vectors vecs; the
\* document indices are 0-based as in the code, vecs is 1-based
cosineSimilarity(vecs, doc1Index, doc2Index) ==
    IF doc1Index < 0 \/ doc1Index >= Len(vecs) \/ doc2Index < 0 \/ doc2Index >= Len(vecs)
    THEN Zero
    ELSE IF doc1Index = doc2Index THEN One
    ELSE LET vec1 == vecs[doc1Index + 1]
             vec2 == vecs[doc2Index + 1]
             dot == dotProduct(vec1, vec2)
             mag1 == magnitude(vec1)
             mag2 == magnitude(vec2)
         IN IF mag1 = Zero \/ mag2 = Zero THEN Zero
            ELSE DivBySurd(dot, SurdMul(mag1, mag2))

\* the fallback name counting the documents from 1
nameOfOneBased(names, k) ==
    IF k < Len(names) THEN names[k + 1]
    ELSE <<"D", "o", "c", "u", "m", "e", "n", "t">> \o ToDecimal(k + 1)

\* the name compareAll gives to document index k
nameOf(names, k) ==
    IF k < Len(names) THEN names[k + 1]
    ELSE <<"D", "o", "c", "u", "m", "e", "n", "t">> \o ToDecimal(k)

\* the nested loops of compareAll, from position (i, j); each entry carries
\* the result tuple and the index pair it was computed for
RECURSIVE compareLoop(_, _, _, _, _)
compareLoop(vecs, names, i, j, results) ==
    LET numDocs == Len(vecs) IN
    IF i >= numDocs THEN results
    ELSE IF j >= numDocs THEN compareLoop(vecs, names, i + 1, i + 2, results)
    ELSE compareLoop(vecs, names, i, j + 1,
                     Append(results, [i |-> i, j |-> j,
                                      tuple |-> <<nameOf(names, i), nameOf(names, j),
                                                  cosineSimilarity(vecs, i, j)>>]))

\* compareAll whose inner loop starts at j = i
RECURSIVE compareLoopFromI(_, _, _, _, _)
compareLoopFromI(vecs, names, i, j, results) ==
    LET numDocs == Len(vecs) IN
    IF i >= numDocs THEN results
    ELSE IF j >= numDocs THEN compareLoopFromI(vecs, names, i + 1, i + 1, results)
    ELSE compareLoopFromI(vecs, names, i, j + 1,
                          Append(results, [i |-> i, j |-> j,
                                           tuple |-> <<nameOf(names, i), nameOf(names, j),
                                                       cosineSimilarity(vecs, i, j)>>]))

compareAllFromI(vecs, names) == compareLoopFromI(vecs, names, 0, 0, <<>>)

\* compareAll whose inner loop runs from j = numDocs - 1 down to i + 1
RECURSIVE compareLoopDown(_, _, _, _, _)
compareLoopDown(vecs, names, i, j, results) ==
    LET numDocs == Len(vecs) IN
    IF i >= numDocs THEN results
    ELSE IF j <= i THEN compareLoopDown(vecs, names, i + 1, numDocs - 1, results)
    ELSE compareLoopDown(vecs, names, i, j - 1,
                         Append(results, [i |-> i, j |-> j,
                                          tuple |-> <<nameOf(names, i), nameOf(names, j),
                                                      cosineSimilarity(vecs, i, j)>>]))

compareAllDown(vecs, names) == compareLoopDown(vecs, names, 0, Len(vecs) - 1, <<>>)

\* SimilarityChecker::compareAll
compareAll(vecs, names) == compareLoop(vecs, names, 0, 1, <<>>)

\* ------------------------------------------------------------- TextCleaner
Upper == <<"A", "B", "D">>
Lower == <<"a", "b", "d">>
Digits == {"0", "1", "2", "3", "4", "5", "6", "7", "8", "9"}
Letters == {"a", "b", "c", "d", "e", "f", "g", "i", "m", "n", "o", "p", "r", "s", "t", "u", "v", "x"}

\* ::tolower on one character
tolower(c) ==
    IF \E k \in DOMAIN Upper : Upper[k] = c
    THEN Lower[CHOOSE k \in DOMAIN Upper : Upper[k] = c]
    ELSE c

\* a byte outside 0..127 (0xE9), a negative value as a char
HighByte == "E9"

\* std::isalnum, std::isspace and ::tolower are called on a plain char; for a
\* negative char their behaviour is undefined. The outcomes: the byte is
\* classified as alphanumeric, as white space, or as neither
HighByteClasses == {"alnum", "space", "punct"}

\* white space of the classic locale, as operator>> and strtod skip it
whitespace(c) == c \in {" ", "\n"}

isalnum(c, highByte) ==
    IF c = HighByte THEN highByte = "alnum"
    ELSE c \in Digits \/ c \in Letters \/ c \in Range(Upper)

isspace(c, highByte) == IF c = HighByte THEN highByte = "space" ELSE whitespace(c)

\* TextCleaner::toLower
toLower(text) == [k \in DOMAIN text |-> tolower(text[k])]

\* TextCleaner::removePunctuation
removePunctuation(text, highByte) ==
    [k \in DOMAIN text |->
        IF isalnum(text[k], highByte) \/ isspace(text[k], highByte) THEN text[k] ELSE " "]

\* TextCleaner::tokenize : the whitespace separated words (operator>>)
RECURSIVE tokenizeFrom(_, _, _)
tokenizeFrom(text, token, tokens) ==
    IF text = <<>> THEN (IF token = <<>> THEN tokens ELSE Append(tokens, token))
    ELSE IF whitespace(Head(text))
         THEN tokenizeFrom(Tail(text), <<>>,
                           IF token = <<>> THEN tokens ELSE Append(tokens, token))
         ELSE tokenizeFrom(Tail(text), Append(token, Head(text)), tokens)

tokenize(text) == tokenizeFrom(text, <<>>, <<>>)

\* TextCleaner::initializeStopWords, the stop words over the model's characters
stopWords == {<<"a">>, <<"a", "n">>, <<"a", "n", "d">>, <<"a", "r", "e">>, <<"a", "s">>,
              <<"a", "t">>, <<"b", "e">>, <<"f", "o", "r">>, <<"f", "r", "o", "m">>,
              <<"o", "f">>, <<"o", "n">>, <<"t", "o">>, <<"b", "u", "t">>, <<"s", "o">>,
              <<"u", "p">>, <<"o", "u", "t">>, <<"s", "o", "m", "e">>, <<"m", "o", "r", "e">>,
              <<"c", "o", "m", "e">>, <<"m", "a", "d", "e">>, <<"p", "a", "r", "t">>,
              <<"a", "f", "t", "e", "r">>, <<"b", "e", "e", "n">>, <<"i", "n">>,
              <<"i", "s">>, <<"i", "t">>, <<"i", "t", "s">>, <<"i", "f">>,
              <<"i", "n", "t", "o">>, <<"s", "a", "i", "d">>, <<"t", "i", "m", "e">>,
              <<"d", "i", "d">>, <<"s", "i", "t">>, <<"f", "i", "n", "d">>,
              <<"f", "i", "r", "s", "t">>}

\* TextCleaner::removeStopWords
removeStopWords(tokens) ==
    SelectSeq(tokens, LAMBDA token : token \notin stopWords /\ token # <<>>)

\* TextCleaner::preprocess
preprocess(text, highByte) ==
    removeStopWords(tokenize(removePunctuation(toLower(text), highByte)))

\* -------------------------------------------------------------- FileReader
\* position of the last occurrence of one of the characters cs, 0 for npos
FindLastOf(str, cs) ==
    LET hits == {k \in DOMAIN str : str[k] \in cs}
    IN IF hits = {} THEN 0 ELSE CHOOSE k \in hits : \A h \in hits : h <= k

\* str.substr(pos) with a 1-based position
SubstrFrom(str, pos) == SubSeq(str, pos, Len(str))

TXT == <<"t", "x", "t">>
PDF == <<"p", "d", "f">>
DOCX == <<"d", "o", "c", "x">>

\* FileReader::getFileNames on the entries of the opened directory
getFileNames(entries) ==
    SelectSeq(entries, LAMBDA fileName :
        /\ fileName # <<".">> /\ fileName # <<".", ".">>
        /\ toLower(SubstrFrom(fileName, FindLastOf(fileName, {"."}) + 1)) \in {TXT, PDF, DOCX})

\* FileReader::readFileByPath; files maps the paths that can be opened to
\* their content
readFileByPath(files, filePath) ==
    LET lastDot == FindLastOf(filePath, {"."})
        ext == toLower(SubstrFrom(filePath, lastDot + 1))
    IN IF lastDot = 0 THEN <<>>
       ELSE IF ext = TXT
            THEN (IF filePath \in DOMAIN files THEN files[filePath] ELSE <<>>)
            ELSE <<>>

\* -------------------------------------------------------------------- main
\* std::stod on the strings of the model (digits with an optional point, or
\* nan; no sign, exponent or infinity): the value of the longest numeric
\* prefix; ok is FALSE when there is none and stod throws
\* std::invalid_argument
RECURSIVE digitsPrefix(_)
digitsPrefix(str) ==
    IF str # <<>> /\ Head(str) \in Digits THEN <<Head(str)>> \o digitsPrefix(Tail(str))
    ELSE <<>>

RECURSIVE digitsValue(_, _)
digitsValue(ds, acc) ==
    IF ds = <<>> THEN acc
    ELSE digitsValue(Tail(ds), 10 * acc + (CharRank(Head(ds)) - CharRank("0")))

RECURSIVE Pow10(_)
Pow10(n) == IF n = 0 THEN 1 ELSE 10 * Pow10(n - 1)

RECURSIVE skipSpaces(_)
skipSpaces(str) == IF str # <<>> /\ whitespace(Head(str)) THEN skipSpaces(Tail(str)) ELSE str

\* the double NaN; every comparison with it is false
NaN == [num |-> 0, den |-> 0]

\* operator< on doubles
Less(a, b) == a # NaN /\ b # NaN /\ ~RatLeq(b, a)

stod(arg) ==
    LET str == skipSpaces(arg)
        ip == digitsPrefix(str)
        rest == SubstrFrom(str, Len(ip) + 1)
        fp == IF rest # <<>> /\ Head(rest) = "." THEN digitsPrefix(Tail(rest)) ELSE <<>>
    IN IF Len(str) >= 3 /\ SubSeq(str, 1, 3) = <<"n", "a", "n">>
       THEN [ok |-> TRUE, value |-> NaN]
       ELSE IF ip = <<>> /\ fp = <<>> THEN [ok |-> FALSE, value |-> RatZero]
       ELSE [ok |-> TRUE,
             value |-> Rat(digitsValue(ip, 0) * Pow10(Len(fp)) + digitsValue(fp, 0),
                           Pow10(Len(fp)))]

DefaultThreshold == Rat(70, 100)
DefaultOutput == <<"r", "e", "p", "o", "r", "t", ".", "c", "s", "v">>
DefaultFolder == <<"a", "s", "s", "i", "g", "n", "m", "e", "n", "t", "s">>

\* the range check applied to a parsed threshold
checkedThreshold(t) ==
    IF Less(t, RatZero) \/ Less(RatOne, t) THEN DefaultThreshold ELSE t

HasSuffix(str, suffix) ==
    Len(str) >= Len(suffix) /\ SubstrFrom(str, Len(str) - Len(suffix) + 1) = suffix

\* file mode, the loop over argv[2..]: cfg is [filePaths, outputFile, threshold]
RECURSIVE fileModeArgs(_, _)
fileModeArgs(args, cfg) ==
    IF args = <<>> THEN cfg
    ELSE LET arg == Head(args) IN
         IF Len(arg) > 4 /\ (\/ HasSuffix(arg, <<".">> \o TXT)
                             \/ HasSuffix(arg, <<".">> \o PDF)
                             \/ (Len(arg) > 5 /\ HasSuffix(arg, <<".">> \o DOCX)))
         THEN fileModeArgs(Tail(args), [cfg EXCEPT !.filePaths = Append(@, arg)])
         ELSE IF FindLastOf(arg, {"."}) # 0 /\ FindLastOf(arg, {"/"}) = 0
                 /\ FindLastOf(arg, {"\\"}) = 0
              THEN fileModeArgs(Tail(args), [cfg EXCEPT !.outputFile = arg])
              ELSE IF ~stod(arg).ok
                   THEN fileModeArgs(Tail(args), cfg)
                   ELSE fileModeArgs(Tail(args),
                                     [cfg EXCEPT !.threshold = checkedThreshold(stod(arg).value)])

\* the name main derives from a path in file mode
baseName(path) == SubstrFrom(path, FindLastOf(path, {"/", "\\"}) + 1)

\* ------------------------------------------------------------------- state
VARIABLES
    pc,                 \* position of the caller: the API client or main
    documents,          \* FeatureExtractor::documents
    vocabulary,         \* FeatureExtractor::vocabulary
    tfidfVectors,       \* FeatureExtractor::tfidfVectors
    checkerVectors,     \* SimilarityChecker::tfidfVectors
    checkerNames,       \* SimilarityChecker::documentNames
    ret,                \* the value returned by the last SimilarityChecker call
    argv,               \* main: the command line, argv[0] first
    dirEntries,         \* the entries of the input folder, in readdir order
    disk,               \* the files that can be opened: path -> content
    filePaths,          \* main: filePaths
    documentNames,      \* main: documentNames
    outputFile,         \* main: outputFile
    threshold,          \* main: threshold
    processedDocuments, \* main: processedDocuments
    docSource,          \* history: docSource[k] is the position in filePaths of
                        \* the file that processedDocuments[k] was read from
    report,             \* the output file: whether writeCSV wrote it, and its rows
    exitCode            \* what main returned once pc = "exit", -1 before

vars == <<pc, documents, vocabulary, tfidfVectors, checkerVectors, checkerNames, ret,
          argv, dirEntries, disk, filePaths, documentNames, outputFile, threshold,
          processedDocuments, docSource, report, exitCode>>

coreVars == <<documents, vocabulary, tfidfVectors, checkerVectors, checkerNames, ret>>
mainVars == <<argv, dirEntries, disk, filePaths, documentNames, outputFile, threshold,
              processedDocuments, docSource, report, exitCode>>

NoReport == [written |-> FALSE, rows |-> <<>>]

NoRet == [op |-> "none", doc1Index |-> 0, doc2Index |-> 0, value |-> Zero,
          results |-> <<>>, pairs |-> <<>>, vector |-> EmptyMap, thresh |-> RatZero,
          text |-> <<>>, tokens |-> <<>>]

\* ------------------------------------------------------------------ inputs
Tokens == {<<"c", "o", "d", "e">>, <<"d", "a", "t", "a">>}

SeqsUpTo(S, n) == UNION {[1..k -> S] : k \in 0..n}

\* the token sequences a document can be
Docs == SeqsUpTo(Tokens, MaxTokens)

RECURSIVE TotalLen(_)
TotalLen(docs) == IF docs = <<>> THEN 0 ELSE Len(Head(docs)) + TotalLen(Tail(docs))

\* the corpora a FeatureExtractor is constructed on: up to MaxDocs documents
\* holding up to MaxTokens tokens in all
Corpora == {docs \in SeqsUpTo(Docs, MaxDocs) : TotalLen(docs) <= MaxTokens}

\* the display name of the k-th document (0-based) used by the API client
ClientName(k) == <<"d", "o", "c">> \o ToDecimal(k)

\* the name lists a SimilarityChecker is constructed with for n vectors:
\* one name per vector, or the last two names missing
NameLists(n) ==
    {[k \in 1..m |-> ClientName(k - 1)] : m \in {n, IF n > 2 THEN n - 2 ELSE 0}}

\* a vector without its zero-weight entries
dropZeros(vec) == [t \in {u \in DOMAIN vec : vec[u] # RatZero} |-> vec[t]]

\* the vector lists a SimilarityChecker is constructed with: the extractor's
\* vectors as they are, or in sparse form
VectorLists(vecs) == {vecs, [k \in DOMAIN vecs |-> dropZeros(vecs[k])]}

\* the indices cosineSimilarity is called with, some of them out of range
Indices == -1..MaxDocs

\* --------------------------------------------------- the core as a library
Init ==
    /\ documents \in Corpora
    /\ vocabulary = buildVocabulary(documents)
    /\ tfidfVectors = <<>>
    /\ checkerVectors = <<>>
    /\ checkerNames = <<>>
    /\ ret = NoRet
    /\ pc = "extractor"
    /\ argv = <<>> /\ dirEntries = <<>> /\ disk = EmptyMap
    /\ filePaths = <<>> /\ documentNames = <<>>
    /\ outputFile = DefaultOutput /\ threshold = DefaultThreshold
    /\ processedDocuments = <<>> /\ docSource = <<>>
    /\ report = NoReport /\ exitCode = -1

\* extractor.computeTFIDF() without the clear(): the new vectors are appended
ComputeTFIDFAppend ==
    /\ pc \in {"extractor", "computed", "checker"}
    /\ tfidfVectors' = tfidfVectors \o computeTFIDF(documents, vocabulary)
    /\ pc' = IF pc = "checker" THEN "checker" ELSE "computed"
    /\ UNCHANGED <<documents, vocabulary, checkerVectors, checkerNames, ret, mainVars>>

\* extractor.computeTFIDF(); a throwing at() leaves the cleared tfidfVectors
\* behind and ends the caller, which catches nothing. A client without a
\* checker is at "extractor" before its first call and at "computed" after it
ComputeTFIDF ==
    /\ pc \in {"extractor", "computed", "checker"}
    /\ IF computeTFIDFThrows(documents, vocabulary)
       THEN tfidfVectors' = <<>> /\ pc' = "abort"
       ELSE /\ tfidfVectors' = computeTFIDF(documents, vocabulary)
            /\ pc' = IF pc = "checker" THEN "checker" ELSE "computed"
    /\ UNCHANGED <<documents, vocabulary, checkerVectors, checkerNames, ret, mainVars>>

\* extractor.getTFIDFVector(docIndex), const
GetTFIDFVector ==
    /\ pc \in {"extractor", "computed"}
    /\ ret = NoRet
    /\ \E docIndex \in Indices :
          ret' = [NoRet EXCEPT !.op = "getTFIDFVector", !.doc1Index = docIndex,
                               !.vector = getTFIDFVector(tfidfVectors, docIndex)]
    /\ UNCHANGED <<pc, documents, vocabulary, tfidfVectors, checkerVectors, checkerNames,
                   mainVars>>

\* SimilarityChecker checker(vectors, names) on the extractor's vectors
NewChecker ==
    /\ pc \in {"extractor", "computed", "checker"}
    /\ \E vectors \in VectorLists(tfidfVectors), names \in NameLists(Len(tfidfVectors)) :
          /\ checkerVectors' = vectors
          /\ checkerNames' = names
    /\ ret' = NoRet
    /\ pc' = "checker"
    /\ UNCHANGED <<documents, vocabulary, tfidfVectors, mainVars>>

\* checker.cosineSimilarity(i, j); the method is const, so the first call on a
\* checker already returns whatever a later call with these arguments returns
CosineSimilarity ==
    /\ pc = "checker"
    /\ ret = NoRet
    /\ \E i \in Indices, j \in Indices :
          ret' = [NoRet EXCEPT !.op = "cosineSimilarity", !.doc1Index = i, !.doc2Index = j,
                               !.value = cosineSimilarity(checkerVectors, i, j)]
    /\ UNCHANGED <<pc, documents, vocabulary, tfidfVectors, checkerVectors, checkerNames,
                   mainVars>>

\* checker.compareAll(), const as well
CompareAll ==
    /\ pc = "checker"
    /\ ret = NoRet
    /\ LET all == compareAll(checkerVectors, checkerNames)
       IN ret' = [NoRet EXCEPT !.op = "compareAll",
                               !.results = [k \in DOMAIN all |-> all[k].tuple],
                               !.pairs = [k \in DOMAIN all |-> <<all[k].i, all[k].j>>]]
    /\ UNCHANGED <<pc, documents, vocabulary, tfidfVectors, checkerVectors, checkerNames,
                   mainVars>>

Next == ComputeTFIDF \/ GetTFIDFVector \/ NewChecker \/ CosineSimilarity \/ CompareAll

Spec == Init /\ [][Next]_vars

\* ------------------------------------------------------- the program main
MaxFiles == 3

\* the contents a file can have: empty, a stop word only, one or two words
SampleTexts == {<<>>, <<"a">>, <<"c", "o", "d", "e">>, <<"d", "a", "t", "a">>,
                <<"D", "a", "t", "a", ",", "c", "o", "d", "e">>}

\* a file of the input: its extension and what reading it yields
FileKinds == [ext : {TXT}, text : SampleTexts] \cup [ext : {PDF, DOCX}, text : {<<>>}]

InputFolder == <<"d", "i", "r">>

\* the k-th input file (1-based) is named a, b, c, ... with its extension
FileName(k, kind) == <<CharOrder[CharRank("a") + k - 1], ".">> \o kind.ext

\* the arguments that follow the folder or the files on the command line
ExtraArgs == {<<>>,
              << <<"o", ".", "c", "s", "v">> >>,
              << <<"o", ".", "c", "s", "v">>, <<"0", ".", "8">> >>,
              << <<"o", ".", "c", "s", "v">>, <<"1", ".", "5">> >>,
              << <<"o", ".", "c", "s", "v">>, <<"1">> >>,
              << <<"o", ".", "c", "s", "v">>, <<"x">> >>,
              << <<"o", ".", "c", "s", "v">>, <<"n", "a", "n">> >>}

Program == <<"p">>

PathIn(folder, name) == folder \o <<"/">> \o name

MainInit ==
    /\ \E mode \in {"default", "folder", "file"}, extra \in ExtraArgs,
          kinds \in SeqsUpTo(FileKinds, MaxFiles) :
          LET names == [k \in DOMAIN kinds |-> FileName(k, kinds[k])]
              folder == IF mode = "default" THEN DefaultFolder ELSE InputFolder
              paths == [k \in DOMAIN kinds |-> PathIn(folder, names[k])]
          IN /\ argv = IF mode = "default" THEN <<Program>>
                       ELSE IF mode = "folder" THEN <<Program, InputFolder>> \o extra
                       ELSE <<Program, <<"-", "f">> >> \o paths \o extra
             /\ dirEntries = <<<<".">>, <<".", ".">> >> \o names
             /\ disk = [p \in {paths[k] : k \in {j \in DOMAIN kinds : kinds[j].ext = TXT}} |->
                           kinds[CHOOSE k \in DOMAIN kinds : paths[k] = p].text]
    /\ pc = "main"
    /\ documents = <<>> /\ vocabulary = <<>> /\ tfidfVectors = <<>>
    /\ checkerVectors = <<>> /\ checkerNames = <<>> /\ ret = NoRet
    /\ filePaths = <<>> /\ documentNames = <<>>
    /\ outputFile = DefaultOutput /\ threshold = DefaultThreshold
    /\ processedDocuments = <<>> /\ docSource = <<>>
    /\ report = NoReport /\ exitCode = -1

\* folder mode and the default folder: the files FileReader lists in folder
folderFiles(folder) ==
    LET fileNames == getFileNames(dirEntries)
    IN [filePaths |-> [k \in DOMAIN fileNames |-> PathIn(folder, fileNames[k])],
        documentNames |-> fileNames]

\* main, from the defaults to the validation of filePaths
MainParse ==
    /\ pc = "main"
    /\ LET argc == Len(argv)
           firstArg == argv[2]
           fileMode == argc > 1 /\ firstArg \in {<<"-", "f">>, <<"-", "-", "f", "i", "l", "e", "s">>}
           cfg == fileModeArgs(SubSeq(argv, 3, argc),
                               [filePaths |-> <<>>, outputFile |-> DefaultOutput,
                                threshold |-> DefaultThreshold])
           listed == folderFiles(IF argc > 1 THEN firstArg ELSE DefaultFolder)
       IN IF fileMode
          THEN /\ filePaths' = cfg.filePaths
               /\ outputFile' = cfg.outputFile
               /\ threshold' = cfg.threshold
               /\ documentNames' = [k \in DOMAIN cfg.filePaths |-> baseName(cfg.filePaths[k])]
               /\ IF cfg.filePaths = <<>>
                  THEN pc' = "exit" /\ exitCode' = 1
                  ELSE pc' = "read" /\ UNCHANGED exitCode
          ELSE IF argc > 3 /\ ~stod(argv[4]).ok
               THEN \* std::stod throws and nothing catches it
                    /\ outputFile' = argv[3]
                    /\ pc' = "abort"
                    /\ UNCHANGED <<filePaths, documentNames, threshold, exitCode>>
               ELSE /\ outputFile' = IF argc > 2 THEN argv[3] ELSE DefaultOutput
                    /\ threshold' = IF argc > 3 THEN checkedThreshold(stod(argv[4]).value)
                                    ELSE DefaultThreshold
                    /\ IF listed.filePaths = <<>>
                       THEN /\ pc' = "exit" /\ exitCode' = 1
                            /\ UNCHANGED <<filePaths, documentNames>>
                       ELSE /\ filePaths' = listed.filePaths
                            /\ documentNames' = listed.documentNames
                            /\ pc' = "read" /\ UNCHANGED exitCode
    /\ UNCHANGED <<coreVars, argv, dirEntries, disk, processedDocuments, docSource, report>>

\* the read and preprocess loop: entries [doc, source] for the files whose
\* content is not empty
\* the read loop without the test content.empty()
RECURSIVE readLoopKeepEmpty(_, _, _, _, _)
readLoopKeepEmpty(files, paths, i, docs, highByte) ==
    IF i > Len(paths) THEN docs
    ELSE readLoopKeepEmpty(files, paths, i + 1,
                           Append(docs, [tokens |-> preprocess(readFileByPath(files, paths[i]),
                                                               highByte),
                                         source |-> i]),
                           highByte)

RECURSIVE readLoop(_, _, _, _, _)
readLoop(files, paths, i, docs, highByte) ==
    IF i > Len(paths) THEN docs
    ELSE LET content == readFileByPath(files, paths[i])
         IN IF content = <<>> THEN readLoop(files, paths, i + 1, docs, highByte)
            ELSE readLoop(files, paths, i + 1,
                          Append(docs, [tokens |-> preprocess(content, highByte),
                                        source |-> i]),
                          highByte)

MainRead ==
    /\ pc = "read"
    /\ \E highByte \in HighByteClasses :
          LET docs == readLoop(disk, filePaths, 1, <<>>, highByte)
          IN /\ processedDocuments' = [k \in DOMAIN docs |-> docs[k].tokens]
             /\ docSource' = [k \in DOMAIN docs |-> docs[k].source]
             /\ IF docs = <<>>
                THEN pc' = "exit" /\ exitCode' = 1
                ELSE pc' = "tfidf" /\ UNCHANGED exitCode
    /\ UNCHANGED <<coreVars, argv, dirEntries, disk, filePaths, documentNames, outputFile,
                   threshold, report>>

\* FeatureExtractor extractor(processedDocuments); extractor.computeTFIDF()
MainExtract ==
    /\ pc = "tfidf"
    /\ documents' = processedDocuments
    /\ vocabulary' = buildVocabulary(processedDocuments)
    /\ IF computeTFIDFThrows(processedDocuments, buildVocabulary(processedDocuments))
       THEN tfidfVectors' = <<>> /\ pc' = "abort"
       ELSE /\ tfidfVectors' =
                   computeTFIDF(processedDocuments, buildVocabulary(processedDocuments))
            /\ pc' = "compare"
    /\ UNCHANGED <<checkerVectors, checkerNames, ret, mainVars>>

\* SimilarityChecker checker(tfidfVectors, documentNames); checker.compareAll()
MainCompare ==
    /\ pc = "compare"
    /\ checkerVectors' = tfidfVectors
    /\ checkerNames' = documentNames
    /\ LET all == compareAll(tfidfVectors, documentNames)
       IN ret' = [NoRet EXCEPT !.op = "compareAll",
                               !.results = [k \in DOMAIN all |-> all[k].tuple],
                               !.pairs = [k \in DOMAIN all |-> <<all[k].i, all[k].j>>]]
    /\ pc' = "report"
    /\ UNCHANGED <<documents, vocabulary, tfidfVectors, mainVars>>

\* similarity > threshold on a result of cosineSimilarity
Exceeds(similarity, thresh) ==
    /\ thresh # NaN
    /\ ~SurdLeq(similarity, [sgn |-> Sign(thresh.num), sq |-> RatMul(thresh, thresh)])

\* writeCSV that flags similarity >= threshold
writeCSVNonStrict(results, thresh) ==
    [k \in DOMAIN results |->
        [pair |-> results[k][1] \o <<" ", "v", "s", " ">> \o results[k][2],
         similarity |-> results[k][3],
         plagiarized |-> IF Exceeds(results[k][3], thresh)
                            \/ (thresh # NaN
                                /\ results[k][3] = [sgn |-> Sign(thresh.num),
                                                    sq |-> RatMul(thresh, thresh)])
                         THEN "Yes" ELSE "No"]]

\* ReportWriter::writeCSV : the rows after the header
writeCSV(results, thresh) ==
    [k \in DOMAIN results |->
        [pair |-> results[k][1] \o <<" ", "v", "s", " ">> \o results[k][2],
         similarity |-> results[k][3],
         plagiarized |-> IF Exceeds(results[k][3], thresh) THEN "Yes" ELSE "No"]]

\* ReportWriter writer(outputFile, threshold); writer.writeCSV(results); return 0
MainReport ==
    /\ pc = "report"
    /\ \E canOpen \in BOOLEAN :
          report' = IF canOpen
                    THEN [written |-> TRUE, rows |-> writeCSV(ret.results, threshold)]
                    ELSE NoReport
    /\ pc' = "exit"
    /\ exitCode' = 0
    /\ UNCHANGED <<coreVars, argv, dirEntries, disk, filePaths, documentNames, outputFile,
                   threshold, processedDocuments, docSource>>

MainNext == MainParse \/ MainRead \/ MainExtract \/ MainCompare \/ MainReport

MainSpec == MainInit /\ [][MainNext]_vars

\* ------------------------------------------- ReportWriter as a library
MaxResults == 2

\* the thresholds a client constructs a ReportWriter with
InitialThresholds == {DefaultThreshold, RatOne}

\* the thresholds a client passes to setThreshold, in [0, 1] or not
Thresholds == {RatZero, Rat(1, 2), DefaultThreshold, RatOne, Rat(3, 2)}

\* the similarities of the results a client passes to writeCSV
Similarities == {Zero, Sqrt(Rat(1, 4)), Sqrt(Rat(49, 100)), One}

\* the result lists a client passes to writeCSV
ResultLists ==
    {[k \in DOMAIN sims |-> <<ClientName(0), ClientName(k), sims[k]>>] :
        sims \in SeqsUpTo(Similarities, MaxResults)}

\* ReportWriter writer(path, thresh); ret keeps the latest call that changed
\* the writer or the file, and the argument of the latest constructor or
\* setThreshold call
WriterInit ==
    /\ pc = "writer"
    /\ outputFile = DefaultOutput
    /\ threshold \in InitialThresholds
    /\ ret = [NoRet EXCEPT !.op = "ReportWriter", !.thresh = threshold]
    /\ report = NoReport
    /\ documents = <<>> /\ vocabulary = <<>> /\ tfidfVectors = <<>>
    /\ checkerVectors = <<>> /\ checkerNames = <<>>
    /\ argv = <<>> /\ dirEntries = <<>> /\ disk = EmptyMap
    /\ filePaths = <<>> /\ documentNames = <<>>
    /\ processedDocuments = <<>> /\ docSource = <<>>
    /\ exitCode = -1

\* writer.setThreshold(thresh)
SetThreshold(thresh) ==
    /\ pc = "writer"
    /\ threshold' = thresh
    /\ ret' = [ret EXCEPT !.op = "setThreshold", !.thresh = thresh]
    /\ UNCHANGED <<pc, documents, vocabulary, tfidfVectors, checkerVectors, checkerNames,
                   argv, dirEntries, disk, filePaths, documentNames, outputFile,
                   processedDocuments, docSource, report, exitCode>>

\* writer.writeCSV(results); when the file cannot be opened the call returns
\* after its error message and nothing has changed
WriteCSV(results, canOpen) ==
    /\ pc = "writer"
    /\ report' = IF canOpen THEN [written |-> TRUE, rows |-> writeCSV(results, threshold)]
                 ELSE report
    /\ ret' = IF canOpen THEN [ret EXCEPT !.op = "writeCSV", !.results = results]
              ELSE ret
    /\ UNCHANGED <<pc, documents, vocabulary, tfidfVectors, checkerVectors, checkerNames,
                   argv, dirEntries, disk, filePaths, documentNames, outputFile, threshold,
                   processedDocuments, docSource, exitCode>>

WriterNext ==
    \/ \E thresh \in Thresholds : SetThreshold(thresh)
    \/ \E results \in ResultLists, canOpen \in BOOLEAN : WriteCSV(results, canOpen)

WriterSpec == WriterInit /\ [][WriterNext]_vars

\* --------------------------------------------- TextCleaner as a library
MaxChars == 3

\* the characters of a text: letters of both cases, a digit, punctuation,
\* white space and a byte outside 0..127
TextChars == {"A", "a", "t", "1", ",", " ", "\n", HighByte}

\* the texts preprocess is called with
Texts == SeqsUpTo(TextChars, MaxChars)

\* TextCleaner cleaner;
CleanerInit ==
    /\ pc = "cleaner"
    /\ ret = NoRet
    /\ outputFile = DefaultOutput /\ threshold = DefaultThreshold
    /\ report = NoReport
    /\ documents = <<>> /\ vocabulary = <<>> /\ tfidfVectors = <<>>
    /\ checkerVectors = <<>> /\ checkerNames = <<>>
    /\ argv = <<>> /\ dirEntries = <<>> /\ disk = EmptyMap
    /\ filePaths = <<>> /\ documentNames = <<>>
    /\ processedDocuments = <<>> /\ docSource = <<>>
    /\ exitCode = -1

\* cleaner.preprocess(text); the method is const, so the first call already
\* returns whatever a later call with this text returns
Preprocess ==
    /\ pc = "cleaner"
    /\ ret = NoRet
    /\ \E text \in Texts, highByte \in HighByteClasses :
          ret' = [NoRet EXCEPT !.op = "preprocess", !.text = text,
                               !.tokens = preprocess(text, highByte)]
    /\ UNCHANGED <<pc, documents, vocabulary, tfidfVectors, checkerVectors, checkerNames,
                   mainVars>>

CleanerNext == Preprocess

CleanerSpec == CleanerInit /\ [][CleanerNext]_vars

\* FeatureExtractor::getVocabulary and FeatureExtractor::getAllTFIDFVectors
getVocabulary == vocabulary
getAllTFIDFVectors == tfidfVectors

\* ================================================================== claims
LastCosine == ret.op = "cosineSimilarity"
LastCompareAll == ret.op = "compareAll"
NumVectors == Len(checkerVectors)
ValidIndex(k) == 0 <= k /\ k < NumVectors
\* the last call was cosineSimilarity(i, j) on two valid, distinct indices of
\* vectors computed from the documents
ValidDistinctCall ==
    /\ LastCosine
    /\ ValidIndex(ret.doc1Index) /\ ValidIndex(ret.doc2Index)
    /\ ret.doc1Index # ret.doc2Index
Doc1 == documents[ret.doc1Index + 1]
Doc2 == documents[ret.doc2Index + 1]
Occurrences(doc, t) == Cardinality({p \in DOMAIN doc : doc[p] = t})
SameMultiset(d1, d2) ==
    Len(d1) = Len(d2) /\ \A t \in Range(d1) \cup Range(d2) : Occurrences(d1, t) = Occurrences(d2, t)

\* C1: compareAll() on N vectors returns exactly N*(N-1)/2 results; every
\* index pair (i, j) with 0 <= i < j < N is scored exactly once, with the
\* value of cosineSimilarity(i, j), and no result is a self pair or a
\* reversed pair.
C1_CompareAllPairs ==
    LastCompareAll =>
        /\ Len(ret.results) = (NumVectors * (NumVectors - 1)) \div 2
        /\ Len(ret.pairs) = Len(ret.results)
        /\ \A i \in 0..(NumVectors - 1), j \in 0..(NumVectors - 1) :
              i < j => Cardinality({k \in DOMAIN ret.pairs : ret.pairs[k] = <<i, j>>}) = 1
        /\ \A k \in DOMAIN ret.pairs :
              /\ 0 <= ret.pairs[k][1] /\ ret.pairs[k][1] < ret.pairs[k][2]
              /\ ret.pairs[k][2] < NumVectors
              /\ ret.results[k][3] =
                     cosineSimilarity(checkerVectors, ret.pairs[k][1], ret.pairs[k][2])

C1_Witness == LastCompareAll /\ NumVectors >= 3 /\ Len(ret.results) = 3

\* C2: the results of compareAll() are in nested-iteration order: the result
\* for (i, j) comes before the result for (i', j') exactly when i < i', or
\* i = i' and j < j'.
C2_NestedOrder ==
    LastCompareAll =>
        \A k \in DOMAIN ret.pairs, l \in DOMAIN ret.pairs :
            (k < l) <=> (\/ ret.pairs[k][1] < ret.pairs[l][1]
                         \/ /\ ret.pairs[k][1] = ret.pairs[l][1]
                            /\ ret.pairs[k][2] < ret.pairs[l][2])

C2_Witness ==
    /\ LastCompareAll
    /\ Len(ret.pairs) >= 3
    /\ ret.pairs[1] = <<0, 1>> /\ ret.pairs[2] = <<0, 2>> /\ ret.pairs[3] = <<1, 2>>

\* C3: in main, every result triple carries the names of the two input files
\* whose contents produced its score, also when a listed file is skipped.
C3_NamesAligned ==
    (pc \in {"report", "exit"} /\ LastCompareAll) =>
        \A k \in DOMAIN ret.results :
            /\ ret.results[k][1] = documentNames[docSource[ret.pairs[k][1] + 1]]
            /\ ret.results[k][2] = documentNames[docSource[ret.pairs[k][2] + 1]]

\* C4: for every valid index i, cosineSimilarity(i, i) is exactly 1.0, also
\* when vector i has zero magnitude.
C4_SelfIsOne ==
    (LastCosine /\ ValidIndex(ret.doc1Index) /\ ret.doc1Index = ret.doc2Index)
        => ret.value = One

C4_Witness ==
    /\ LastCosine /\ ValidIndex(ret.doc1Index) /\ ret.doc1Index = ret.doc2Index
    /\ magnitude(checkerVectors[ret.doc1Index + 1]) = Zero
    /\ ret.value = One

\* C5: when either index is outside [0, N), cosineSimilarity returns 0.0,
\* also when the two out-of-range indices are equal.
C5_OutOfRangeIsZero ==
    (LastCosine /\ (~ValidIndex(ret.doc1Index) \/ ~ValidIndex(ret.doc2Index)))
        => ret.value = Zero

C5_Witness ==
    /\ LastCosine /\ NumVectors >= 1
    /\ ret.doc1Index = NumVectors /\ ret.doc2Index = NumVectors
    /\ ret.value = Zero

C7_Symmetric ==
    LastCosine => ret.value = cosineSimilarity(checkerVectors, ret.doc2Index, ret.doc1Index)

C7_Witness ==
    /\ ValidDistinctCall
    /\ Size(checkerVectors[ret.doc1Index + 1]) < Size(checkerVectors[ret.doc2Index + 1])
    /\ ret.value # Zero
    /\ ret.value = cosineSimilarity(checkerVectors, ret.doc2Index, ret.doc1Index)

\* C8: two distinct documents with identical non-empty token multisets have
\* cosineSimilarity 1.0 after computeTFIDF, whatever the rest of the corpus.
C8_IdenticalIsOne ==
    (ValidDistinctCall /\ Doc1 # <<>> /\ SameMultiset(Doc1, Doc2)) => ret.value = One

\* C9: two distinct documents that share no term have cosineSimilarity 0.0
\* after computeTFIDF.
C9_DisjointIsZero ==
    (ValidDistinctCall /\ Range(Doc1) \cap Range(Doc2) = {}) => ret.value = Zero

C9_Witness ==
    /\ ValidDistinctCall
    /\ Doc1 # <<>> /\ Doc2 # <<>> /\ Range(Doc1) \cap Range(Doc2) = {}
    /\ magnitude(checkerVectors[ret.doc1Index + 1]) # Zero
    /\ magnitude(checkerVectors[ret.doc2Index + 1]) # Zero
    /\ ret.value = Zero

\* C10: a document with zero tokens has a zero-magnitude vector after
\* computeTFIDF, and its cosineSimilarity with every other valid index is 0.0.
C10_EmptyDocIsZero ==
    /\ \A k \in DOMAIN tfidfVectors :
          documents[k] = <<>> => magnitude(tfidfVectors[k]) = Zero
    /\ (ValidDistinctCall /\ Doc1 = <<>>) => ret.value = Zero

C10_Witness ==
    /\ ValidDistinctCall /\ Doc1 = <<>>
    /\ magnitude(checkerVectors[ret.doc2Index + 1]) # Zero
    /\ ret.value = Zero

\* C11: after constructing a FeatureExtractor, getVocabulary() is exactly the
\* set of distinct tokens of the documents: every token of every document is
\* in it, nothing else is, no term is there twice and the terms are strictly
\* ascending in lexicographic order; no tokens give an empty vocabulary.
C11_Vocabulary ==
    pc \in {"extractor", "computed", "checker"} =>
        /\ \A k \in DOMAIN documents : \A p \in DOMAIN documents[k] :
              \E v \in DOMAIN getVocabulary : getVocabulary[v] = documents[k][p]
        /\ \A v \in DOMAIN getVocabulary :
              \E k \in DOMAIN documents : \E p \in DOMAIN documents[k] :
                  documents[k][p] = getVocabulary[v]
        /\ \A v \in DOMAIN getVocabulary, w \in DOMAIN getVocabulary :
              v < w => /\ getVocabulary[v] # getVocabulary[w]
                       /\ StrLess(getVocabulary[v], getVocabulary[w])
        /\ TotalLen(documents) = 0 => getVocabulary = <<>>

C11_Witness ==
    /\ pc = "extractor"
    /\ Len(documents) >= 2
    /\ documents[1] = << <<"d", "a", "t", "a">>, <<"d", "a", "t", "a">> >>
    /\ documents[2] = << <<"c", "o", "d", "e">> >>
    /\ getVocabulary = << <<"c", "o", "d", "e">>, <<"d", "a", "t", "a">> >>

\* the definitions of spec section 3 on the documents of the extractor
TF(t, doc) == IF doc = <<>> THEN RatZero ELSE Rat(Occurrences(doc, t), Len(doc))
DocCount(t) == Cardinality({k \in DOMAIN documents : \E p \in DOMAIN documents[k] :
                                                        documents[k][p] = t})
IDF(t) == IF DocCount(t) = 0 THEN RatZero ELSE Log10(Len(documents), DocCount(t))
Weight(t, doc) == RatMul(TF(t, doc), IDF(t))

\* C12: after computeTFIDF(), getAllTFIDFVectors() holds exactly one vector
\* per document, vector k holding the weights of document k; on an empty
\* corpus the vocabulary, the vector list and the result of compareAll() are
\* empty, and nothing is raised.
C12_OneVectorPerDocument ==
    /\ pc # "abort"
    /\ (pc = "computed" \/ getAllTFIDFVectors # <<>>) =>
          /\ Len(getAllTFIDFVectors) = Len(documents)
          /\ \A k \in DOMAIN documents : \A t \in DOMAIN getAllTFIDFVectors[k] :
                 getAllTFIDFVectors[k][t] = Weight(t, documents[k])
    /\ documents = <<>> =>
          /\ getVocabulary = <<>>
          /\ getAllTFIDFVectors = <<>>
          /\ LastCompareAll => ret.results = <<>>

C12_Witness ==
    /\ pc = "computed"
    /\ Len(getAllTFIDFVectors) = 3
    /\ documents[1] # documents[2] /\ documents[2] # documents[3]
    /\ getAllTFIDFVectors[1] # getAllTFIDFVectors[2]
    /\ getAllTFIDFVectors[2] # getAllTFIDFVectors[3]
    /\ getAllTFIDFVectors[1] # getAllTFIDFVectors[3]

\* C13: in every state reached by constructing a FeatureExtractor and calling
\* computeTFIDF any number of times, every key of every document's weight
\* vector is a member of the vocabulary.
C13_KeysInVocabulary ==
    \A k \in DOMAIN getAllTFIDFVectors : \A t \in DOMAIN getAllTFIDFVectors[k] :
        \E v \in DOMAIN getVocabulary : getVocabulary[v] = t

C13_Witness ==
    /\ Len(getAllTFIDFVectors) >= 2
    /\ Len(getVocabulary) >= 2
    /\ \A k \in DOMAIN getAllTFIDFVectors : Size(getAllTFIDFVectors[k]) = Len(getVocabulary)
    /\ \E k \in DOMAIN documents : documents[k] = <<>>

\* the decimal numeral of an index below ten
Numeral(k) == <<"0", "1", "2", "3", "4", "5", "6", "7", "8", "9">>[k + 1]

\* the label the claim gives to index k under the checker's names
Label(k) ==
    IF k >= Len(checkerNames)
    THEN <<"D", "o", "c", "u", "m", "e", "n", "t", Numeral(k)>>
    ELSE checkerNames[k + 1]

\* C14: in compareAll(), with a names sequence shorter than the vectors,
\* every index k >= names.size() is labelled "Document" followed by the
\* decimal k, every index k < names.size() is labelled names[k], and nothing
\* is raised.
C14_FallbackNames ==
    /\ pc # "abort"
    /\ LastCompareAll =>
          \A k \in DOMAIN ret.results :
              /\ ret.results[k][1] = Label(ret.pairs[k][1])
              /\ ret.results[k][2] = Label(ret.pairs[k][2])

C14_Witness ==
    /\ LastCompareAll
    /\ NumVectors = 3 /\ Len(checkerNames) = 1
    /\ ret.results[1][1] = checkerNames[1]
    /\ ret.results[1][2] = <<"D", "o", "c", "u", "m", "e", "n", "t", "1">>
    /\ ret.results[3][1] = <<"D", "o", "c", "u", "m", "e", "n", "t", "1">>
    /\ ret.results[3][2] = <<"D", "o", "c", "u", "m", "e", "n", "t", "2">>

\* similarity > thresh for a similarity that is not negative
Greater(similarity, thresh) ==
    \/ thresh.num < 0
    \/ similarity.sgn > 0 /\ ~RatLeq(similarity.sq, RatMul(thresh, thresh))

\* C15: writeCSV writes, after the header, one row per result in input
\* order; the flag of a row is Yes exactly when similarity > threshold, so
\* No when they are equal, for the threshold given to the constructor or to
\* the most recent setThreshold call.
C15_StrictThreshold ==
    ret.op = "writeCSV" =>
        /\ report.written
        /\ Len(report.rows) = Len(ret.results)
        /\ \A k \in DOMAIN ret.results :
              /\ report.rows[k].pair =
                     ret.results[k][1] \o <<" ", "v", "s", " ">> \o ret.results[k][2]
              /\ report.rows[k].similarity = ret.results[k][3]
              /\ report.rows[k].plagiarized \in {"Yes", "No"}
              /\ report.rows[k].plagiarized = "Yes" <=> Greater(ret.results[k][3], ret.thresh)

C15_Witness ==
    /\ pc = "writer" /\ ret.op = "writeCSV" /\ report.written
    /\ ret.thresh = Rat(1, 2) /\ threshold = Rat(1, 2)
    /\ Len(report.rows) = 2
    /\ report.rows[1].similarity = Sqrt(Rat(1, 4)) /\ report.rows[1].plagiarized = "No"
    /\ report.rows[2].similarity = Sqrt(Rat(49, 100)) /\ report.rows[2].plagiarized = "Yes"

\* the command line is `-f files... output.csv threshold` with a threshold
\* argument that is a number in [0, 1]
FileModeWithThreshold ==
    /\ Len(argv) >= 4
    /\ argv[2] = <<"-", "f">>
    /\ HasSuffix(argv[Len(argv) - 1], <<".", "c", "s", "v">>)
    /\ stod(argv[Len(argv)]).ok
    /\ stod(argv[Len(argv)]).value # NaN
    /\ RatLeq(RatZero, stod(argv[Len(argv)]).value)
    /\ RatLeq(stod(argv[Len(argv)]).value, RatOne)

\* C16: in file mode, once the arguments are parsed, a threshold argument
\* that is a decimal number in [0, 1] is the plagiarism threshold and the
\* output file is still the output.csv argument.
C16_FileModeThreshold ==
    (pc # "main" /\ FileModeWithThreshold) =>
        /\ threshold = stod(argv[Len(argv)]).value
        /\ outputFile = argv[Len(argv) - 1]

\* C17: no operation of the core raises an exception: the lookups
\* idf.at(term) and tf.at(term) of computeTFIDF are made for present keys on
\* every corpus, also with empty documents, and getTFIDFVector answers an
\* index outside the documents with an empty vector.
C17_NoException ==
    /\ pc # "abort"
    /\ ~computeTFIDFThrows(documents, getVocabulary)
    /\ (documents # <<>>) =>
          \A v \in DOMAIN getVocabulary :
              getVocabulary[v] \in DOMAIN computeIDF(documents, getVocabulary)
    /\ (ret.op = "getTFIDFVector"
          /\ (ret.doc1Index < 0 \/ ret.doc1Index >= Len(documents))) => ret.vector = EmptyMap

C17_Witness ==
    /\ pc = "computed"
    /\ Len(getAllTFIDFVectors) >= 2
    /\ documents[1] = <<>> /\ documents[2] # <<>>
    /\ ret.op = "getTFIDFVector" /\ ret.doc1Index = Len(getAllTFIDFVectors)
    /\ ret.vector = EmptyMap

\* the sum of the values of a map
RECURSIVE SumOfValues(_)
SumOfValues(f) ==
    IF DOMAIN f = {} THEN RatZero
    ELSE LET t == CHOOSE u \in DOMAIN f : TRUE
         IN RatAdd(f[t], SumOfValues([u \in DOMAIN f \ {t} |-> f[u]]))

C19_InverseDocumentFrequency ==
    /\ documents # <<>> =>
          LET idf == computeIDF(documents, getVocabulary)
          IN /\ DOMAIN idf = {getVocabulary[v] : v \in DOMAIN getVocabulary}
             /\ \A t \in DOMAIN idf :
                   /\ DocCount(t) >= 1
                   /\ idf[t] = Log10(Len(documents), DocCount(t))
    /\ \A k \in DOMAIN getAllTFIDFVectors : \A t \in DOMAIN getAllTFIDFVectors[k] :
          getAllTFIDFVectors[k][t] =
              IF Occurrences(documents[k], t) = 0 THEN RatZero
              ELSE RatMul(Rat(Occurrences(documents[k], t), Len(documents[k])),
                          Log10(Len(documents), DocCount(t)))

C19_Witness ==
    /\ Len(getAllTFIDFVectors) = 2
    /\ documents[1] = << <<"c", "o", "d", "e">>, <<"c", "o", "d", "e">> >>
    /\ documents[2] = << <<"d", "a", "t", "a">> >>
    /\ getAllTFIDFVectors[1][<<"c", "o", "d", "e">>] = Rat(3, 10)
    /\ getAllTFIDFVectors[2][<<"c", "o", "d", "e">>] = RatZero

\* C20: for a document with zero tokens, the weight vector that
\* computeTFIDF produces has no keys, whatever the vocabulary built from the
\* other documents.
C20_EmptyDocEmptyVector ==
    \A k \in DOMAIN getAllTFIDFVectors :
        documents[k] = <<>> => DOMAIN getAllTFIDFVectors[k] = {}

\* C20, amended: for a document with zero tokens, the weight vector that
\* computeTFIDF produces has one key per vocabulary term, each with weight
\* 0.0; it has no keys only when the vocabulary is empty.
C20_EmptyDocZeroVector ==
    \A k \in DOMAIN getAllTFIDFVectors :
        documents[k] = <<>> =>
            /\ DOMAIN getAllTFIDFVectors[k] = {getVocabulary[v] : v \in DOMAIN getVocabulary}
            /\ \A t \in DOMAIN getAllTFIDFVectors[k] : getAllTFIDFVectors[k][t] = RatZero

C20_Witness ==
    /\ Len(getAllTFIDFVectors) = 3
    /\ documents[2] = <<>>
    /\ Len(getVocabulary) = 2
    /\ Size(getAllTFIDFVectors[2]) = 2
    /\ \A t \in DOMAIN getAllTFIDFVectors[2] : getAllTFIDFVectors[2][t] = RatZero
    /\ \E t \in DOMAIN getAllTFIDFVectors[1] : getAllTFIDFVectors[1][t] # RatZero

\* the sum of weightA * weightB over the terms present in both vectors
RECURSIVE SumOfProducts(_, _, _)
SumOfProducts(terms, vecA, vecB) ==
    IF terms = {} THEN RatZero
    ELSE LET t == CHOOSE u \in terms : TRUE
         IN RatAdd(RatMul(vecA[t], vecB[t]), SumOfProducts(terms \ {t}, vecA, vecB))

Dot(vecA, vecB) == SumOfProducts(DOMAIN vecA \cap DOMAIN vecB, vecA, vecB)

\* the square of the magnitude: the sum of the squared weights
SquaredMagnitude(vec) == SumOfProducts(DOMAIN vec, vec, vec)

\* C21: for valid i # j whose vectors both have non-zero magnitude,
\* cosineSimilarity(i, j) equals dot / (magnitude * magnitude) computed
\* independently from the stored vectors, the dot product being the sum of
\* the products of the weights of the common terms and the magnitude the
\* square root of the sum of the squared weights.
C21_CosineFormula ==
    LET vecA == checkerVectors[ret.doc1Index + 1]
        vecB == checkerVectors[ret.doc2Index + 1]
    IN (ValidDistinctCall /\ SquaredMagnitude(vecA) # RatZero
                          /\ SquaredMagnitude(vecB) # RatZero) =>
          /\ ret.value.sgn = Sign(Dot(vecA, vecB).num)
          /\ ret.value.sq = RatDiv(RatMul(Dot(vecA, vecB), Dot(vecA, vecB)),
                                   RatMul(SquaredMagnitude(vecA), SquaredMagnitude(vecB)))

C21_Witness ==
    /\ ValidDistinctCall
    /\ Size(checkerVectors[ret.doc1Index + 1]) > Size(checkerVectors[ret.doc2Index + 1])
    /\ SquaredMagnitude(checkerVectors[ret.doc1Index + 1]) # RatZero
    /\ SquaredMagnitude(checkerVectors[ret.doc2Index + 1]) # RatZero
    /\ ret.value # Zero /\ ret.value # One

\* the checker's vectors without their zero-weight entries
SparseVectors == [k \in DOMAIN checkerVectors |-> dropZeros(checkerVectors[k])]

\* C22: removing every zero-weight entry from the vectors of a
\* SimilarityChecker changes neither dotProduct, nor magnitude, nor the
\* result of cosineSimilarity(i, j) for any i, j, nor the output of
\* compareAll(), also when it changes which vector dotProduct iterates.
C22_ZeroEntriesIrrelevant ==
    /\ LastCosine =>
          /\ ret.value = cosineSimilarity(SparseVectors, ret.doc1Index, ret.doc2Index)
          /\ (ValidIndex(ret.doc1Index) /\ ValidIndex(ret.doc2Index)) =>
                /\ dotProduct(checkerVectors[ret.doc1Index + 1],
                              checkerVectors[ret.doc2Index + 1])
                       = dotProduct(SparseVectors[ret.doc1Index + 1],
                                    SparseVectors[ret.doc2Index + 1])
                /\ magnitude(checkerVectors[ret.doc1Index + 1])
                       = magnitude(SparseVectors[ret.doc1Index + 1])
    /\ LastCompareAll =>
          LET all == compareAll(SparseVectors, checkerNames)
          IN ret.results = [k \in DOMAIN all |-> all[k].tuple]

C22_Witness ==
    /\ ValidDistinctCall
    /\ Size(checkerVectors[ret.doc1Index + 1]) = Size(checkerVectors[ret.doc2Index + 1])
    /\ Size(SparseVectors[ret.doc1Index + 1]) < Size(SparseVectors[ret.doc2Index + 1])
    /\ Size(SparseVectors[ret.doc1Index + 1]) > 0
    /\ ret.value # Zero
    /\ ret.value = cosineSimilarity(SparseVectors, ret.doc1Index, ret.doc2Index)

\* C23: every weight of every vector produced by computeTFIDF is
\* non-negative: every vocabulary term has 1 <= docCount <= totalDocs, so
\* its IDF is non-negative, and TF is non-negative.
C23_NonNegativeWeights ==
    /\ \A k \in DOMAIN getAllTFIDFVectors : \A t \in DOMAIN getAllTFIDFVectors[k] :
          RatLeq(RatZero, getAllTFIDFVectors[k][t])
    /\ \A v \in DOMAIN getVocabulary :
          /\ 1 <= DocCount(getVocabulary[v])
          /\ DocCount(getVocabulary[v]) <= Len(documents)
          /\ RatLeq(RatZero, computeIDF(documents, getVocabulary)[getVocabulary[v]])
    /\ \A k \in DOMAIN documents : \A t \in DOMAIN computeTF(documents[k]) :
          RatLeq(RatZero, computeTF(documents[k])[t])

C23_Witness ==
    /\ pc = "computed"
    /\ Len(documents) = 3
    /\ \E k \in DOMAIN getAllTFIDFVectors : \E t \in DOMAIN getAllTFIDFVectors[k] :
          /\ getAllTFIDFVectors[k][t] # RatZero
          /\ RatLeq(RatZero, getAllTFIDFVectors[k][t])
    /\ \E v \in DOMAIN getVocabulary : DocCount(getVocabulary[v]) = 2

\* the command line selects file mode
FileMode == Len(argv) > 1 /\ argv[2] \in {<<"-", "f">>, <<"-", "-", "f", "i", "l", "e", "s">>}

\* C24: the threshold used for the report is always within [0.0, 1.0]: a
\* numeric threshold argument below 0.0 or above 1.0 is replaced by the
\* default 0.70, and without a threshold argument the threshold is 0.70.
C24_ThresholdInRange ==
    (pc = "exit" /\ report.written) =>
        /\ threshold # NaN
        /\ RatLeq(RatZero, threshold) /\ RatLeq(threshold, RatOne)
        /\ (~FileMode /\ Len(argv) < 4) => threshold = DefaultThreshold
        /\ (~FileMode /\ Len(argv) >= 4 /\ stod(argv[4]).value # NaN
               /\ ~RatLeq(stod(argv[4]).value, RatOne)) => threshold = DefaultThreshold

\* the lowercase letters and digits
LowercaseAndDigits == Digits \cup Letters

\* the words of a text: its maximal runs of letters and digits, lowered
RECURSIVE WordsFrom(_, _, _)
WordsFrom(text, word, words) ==
    IF text = <<>> THEN (IF word = <<>> THEN words ELSE Append(words, word))
    ELSE IF tolower(Head(text)) \in LowercaseAndDigits
         THEN WordsFrom(Tail(text), Append(word, tolower(Head(text))), words)
         ELSE WordsFrom(Tail(text), <<>>, IF word = <<>> THEN words ELSE Append(words, word))

NonEmptyFiles == {k \in DOMAIN filePaths : readFileByPath(disk, filePaths[k]) # <<>>}

C27_ZeroWeights ==
    /\ \A k \in DOMAIN getAllTFIDFVectors : \A t \in DOMAIN getAllTFIDFVectors[k] :
          IF Occurrences(documents[k], t) = 0 \/ DocCount(t) = Len(documents)
          THEN getAllTFIDFVectors[k][t] = RatZero
          ELSE getAllTFIDFVectors[k][t].num > 0 /\ getAllTFIDFVectors[k][t].den > 0
    /\ (Len(documents) = 1
          \/ \A k \in DOMAIN documents, l \in DOMAIN documents :
                 {documents[k][p] : p \in DOMAIN documents[k]}
                     = {documents[l][p] : p \in DOMAIN documents[l]}) =>
          \A k \in DOMAIN getAllTFIDFVectors : \A t \in DOMAIN getAllTFIDFVectors[k] :
              getAllTFIDFVectors[k][t] = RatZero

C27_Witness ==
    /\ pc = "computed"
    /\ Len(documents) = 2
    /\ documents[1] = << <<"c", "o", "d", "e">>, <<"d", "a", "t", "a">> >>
    /\ documents[2] = << <<"c", "o", "d", "e">> >>
    /\ getAllTFIDFVectors[1][<<"c", "o", "d", "e">>] = RatZero
    /\ getAllTFIDFVectors[1][<<"d", "a", "t", "a">>].num > 0
    /\ getAllTFIDFVectors[2][<<"d", "a", "t", "a">>] = RatZero

\* C28: before the first computeTFIDF, getAllTFIDFVectors() is empty and
\* getTFIDFVector(k) is an empty map; after one or more calls the stored
\* vectors are those of a single call (a call replaces, never appends);
\* computeTFIDF, the getters, cosineSimilarity and compareAll leave the
\* documents, the vocabulary and the checker's vectors and names unchanged
\* (a step either leaves them unchanged or is a step of none of the four).
C28_ReplaceAndFrame ==
    /\ [](pc = "extractor" =>
             /\ getAllTFIDFVectors = <<>>
             /\ ret.op = "getTFIDFVector" => ret.vector = EmptyMap)
    /\ [](/\ pc = "computed" => getAllTFIDFVectors = computeTFIDF(documents, vocabulary)
          /\ pc = "checker" =>
                getAllTFIDFVectors \in {<<>>, computeTFIDF(documents, vocabulary)})
    /\ [][\/ /\ documents' = documents
             /\ vocabulary' = vocabulary
             /\ getVocabulary' = getVocabulary
             /\ checkerVectors' = checkerVectors
             /\ checkerNames' = checkerNames
          \/ ~(ComputeTFIDF \/ GetTFIDFVector \/ CosineSimilarity \/ CompareAll)]_vars

\* a checker built before the first computeTFIDF still holds no vector after
\* computeTFIDF stored three and cosineSimilarity was called
C28_Witness ==
    /\ pc = "checker"
    /\ Len(documents) = 3
    /\ Len(getAllTFIDFVectors) = 3
    /\ checkerVectors = <<>>
    /\ ret.op = "cosineSimilarity"

\* C29: for every command line main ends by returning 0 or 1; a threshold
\* argument that cannot be parsed leaves the default threshold and never ends
\* the program with an uncaught exception, in folder mode and in file mode.
C29_NoUncaughtException ==
    /\ pc # "abort"
    /\ pc = "exit" => exitCode \in {0, 1}
    /\ (pc \notin {"main", "abort"} /\ Len(argv) >= 3 /\ ~stod(argv[Len(argv)]).ok) =>
          threshold = DefaultThreshold

\* the rearrangements of n positions
Perms(n) == {p \in [1..n -> 1..n] : \A a \in 1..n, b \in 1..n : a # b => p[a] # p[b]}

\* the corpus whose document at position p[k] is document k of docs
Permuted(docs, p) == [k \in DOMAIN docs |-> docs[CHOOSE a \in DOMAIN docs : p[a] = k]]

\* C30: the similarity does not depend on the positions of the documents:
\* for every corpus and every permutation p of its documents the vocabulary
\* is the same and cosineSimilarity(p(i), p(j)) on the permuted corpus equals
\* cosineSimilarity(i, j) on the original one.
C30_PositionIndependent ==
    (/\ pc = "checker" /\ ret.op = "cosineSimilarity"
     /\ checkerVectors = getAllTFIDFVectors /\ checkerVectors # <<>>
     /\ ret.doc1Index \in 0..(Len(documents) - 1)
     /\ ret.doc2Index \in 0..(Len(documents) - 1)) =>
        \A p \in Perms(Len(documents)) :
            LET docs == Permuted(documents, p)
                vocab == buildVocabulary(docs)
            IN /\ vocab = getVocabulary
               /\ cosineSimilarity(computeTFIDF(docs, vocab),
                                   p[ret.doc1Index + 1] - 1, p[ret.doc2Index + 1] - 1)
                      = ret.value

C30_Witness ==
    /\ pc = "checker" /\ ret.op = "cosineSimilarity"
    /\ checkerVectors = getAllTFIDFVectors
    /\ Len(documents) = 3
    /\ documents[1] # documents[2] /\ documents[2] # documents[3]
    /\ documents[1] # documents[3]
    /\ ret.doc1Index = 0 /\ ret.doc2Index = 2
    /\ ret.value # Zero

====
